---------------------------- MODULE Spec2Model ----------------------------
(***************************************************************************)
(* A model of MIDITONES_SCROLL V1.10 (src/miditones_scroll.c): the decode  *)
(* pass of main() over a Playtune bytestream, with print_status() and      *)
(* file_error().  Offsets are 0-based as in the C code (bufptr - buffer);  *)
(* the byte at offset i of the file is buffer[i + 1].                      *)
(***************************************************************************)
EXTENDS Integers, Sequences, FiniteSets, Bags

-----------------------------------------------------------------------------
(* Program constants *)

MAX_TONEGENS == 16

SILENT == -1

HDR_SIZE == 6

HDR_F1_VOLUME_PRESENT == 128

ERR_WINDOW == 16

-----------------------------------------------------------------------------
(* Bounds of the model and the input sets *)

MaxBody == 3

MaxLong == 6

MaxHdrBody == 3

\* the length of the inputs long enough to hold a whole error window
WindowLen == 40

\* the bytes of the short inputs, one of every kind the dispatch tells apart:
\* 0x01 (delay / data), 0x80 0x81 (note off), 0x90 0x91 (note on),
\* 0xC0 (instrument), 0xE0 (repeat), 0xF0 (end of score), 0xA0 (undefined)
CmdBytes == {1, 128, 129, 144, 145, 192, 224, 240, 160}

\* the bytes of the longer inputs: delay, note off, note on
LongBytes == {1, 128, 144}

\* the bytes that follow a file header in the headered inputs
HdrCmdBytes == {1, 144, 128, 240}

\* what a read of a byte the file did not fill can return: any byte (the
\* spare byte of the malloc'ed block, or the memory that follows the block)
GarbageBytes == 0..255

SeqsUpTo(S, n) == UNION {[1..k -> S] : k \in 0..n}

\* 'P' 't' hdr_length f1 f2 num_tgens
HeaderBytes(hl, f1) == <<80, 116, hl, f1, 0, 4>>

HeaderPrefixes == {HeaderBytes(hl, f1) : hl \in {2, 6, 8, 200}, f1 \in {96, 128}}

\* the worked example of the documentation
ExampleStream == <<0, 100, 144, 64, 1, 44, 128, 240>>

\* two delays with a marker byte between them
MarkerStreams == {<<1, 1, m, 1, 1>> : m \in {224, 240}}

\* every byte value on its own, so that the dispatch sees all 256
SingleByteBuffers == {<<b>> : b \in 0..255}

\* every byte value followed by one or two operand bytes
OperandStreams ==
    {<<b, 64>> : b \in 0..255} \cup {<<b, 64, 65>> : b \in 0..255}

\* inputs whose last command lacks its last operand byte
TruncatedStreams ==
    {<<1>>, <<192>>, <<144, 64>>, <<1, 1, 1>>, <<144, 64, 128, 1>>,
     HeaderBytes(6, 96) \o <<1>>, HeaderBytes(6, 128) \o <<144, 64>>}

\* the bytes file_error is called for: 0xA0 (undefined), 0x80 (note off)
FaultBytes == {160, 128}

\* where the faulty byte stands: at the start, around the offset where the
\* window stops being cut at the start of the buffer, around the offset where
\* it starts being cut at the end, and at the end
FaultOffsets ==
    {0, ERR_WINDOW - 1, ERR_WINDOW, ERR_WINDOW + 1, WindowLen - ERR_WINDOW - 2,
     WindowLen - ERR_WINDOW - 1, WindowLen - ERR_WINDOW, WindowLen - 1}

\* one faulty byte among bytes the dispatch passes over
WindowStreams ==
    {[i \in 1..WindowLen |-> IF i = p + 1 THEN f ELSE 224] :
        p \in FaultOffsets, f \in FaultBytes}

\* for each generator: a NoteOff, a Delay, and a NoteOn of the same generator
RestartStreams == {<<128 + g, 1, 1, 144 + g, 64>> : g \in 0..(MAX_TONEGENS - 1)}

\* for each generator g: InstrumentChange(g), InstrumentChange(15), a Delay,
\* NoteOn(g), a Delay
InstrumentStreams ==
    {<<192 + g, 7, 207, 9, 0, 10, 144 + g, 64, 0, 10>> : g \in 0..(MAX_TONEGENS - 1)}

\* single Delays with the extreme values of the two bytes
DelayStreams == {<<b, c>> : b \in {0, 127}, c \in {0, 255}}

Buffers ==
    SeqsUpTo(CmdBytes, MaxBody)
      \cup SeqsUpTo(LongBytes, MaxLong)
      \cup SingleByteBuffers
      \cup {h \o b : h \in HeaderPrefixes, b \in SeqsUpTo(HdrCmdBytes, MaxHdrBody)}
      \cup {ExampleStream}
      \cup MarkerStreams
      \cup WindowStreams
      \cup RestartStreams
      \cup InstrumentStreams
      \cup DelayStreams
      \cup OperandStreams
      \cup TruncatedStreams

RECURSIVE Truncated(_, _, _)
\* decoding buf from offset pos, with volume bytes or without, meets a
\* command whose operands do not all lie inside buf
Truncated(buf, pos, vol) ==
    IF pos >= Len(buf) THEN FALSE
    ELSE LET c == buf[pos + 1]
             w == IF c < 128 THEN 2
                  ELSE IF c = 240 \/ c = 224 THEN 1
                  ELSE IF c \div 16 = 9 THEN (IF vol THEN 3 ELSE 2)
                  ELSE IF c \div 16 = 8 THEN 1
                  ELSE IF c \div 16 = 12 THEN 2
                  ELSE 0
         IN IF w = 0 THEN FALSE
            ELSE IF pos + w > Len(buf) THEN TRUE
            ELSE Truncated(buf, pos + w, vol)

\* the inputs of the model for a given -v: the streams whose commands are all
\* complete, and the truncated ones of TruncatedStreams
InputAllowed(buf, v) ==
    LET hdr == Len(buf) > HDR_SIZE /\ buf[1] = 80 /\ buf[2] = 116
        start == IF hdr THEN buf[3] ELSE 0
        vol == IF hdr THEN buf[4] >= 128 ELSE v
    IN buf \in TruncatedStreams \/ ~Truncated(buf, start, vol)

Gens == 0..(MAX_TONEGENS - 1)

-----------------------------------------------------------------------------
VARIABLES
    buffer,                  \* the file's bytes
    num_tonegens,            \* -tn
    codeoutput,              \* -c
    volume_option,           \* -v was given
    expect_volume,           \* -v, or the header's flag
    pc,                      \* "header", "loop", "done", "exit"
    bufptr, lastbufptr,      \* offsets into the buffer
    gen_note, gen_volume, gen_instrument,
    gen_instrument_changed, gen_did_stopnote,
    max_tonegen_found, notes_skipped,
    stopnotes_before_startnote, consecutive_delays,
    warning, gotcommand,
    timenow, delay,
    tonegens_used,           \* bitmap
    instrument_count,        \* bag of instrument numbers
    got_instruments,
    max_vol, min_vol,
    hdr_found,               \* the header test succeeded
    snapshots,               \* the lines print_status wrote
    errors,                  \* the reports file_error wrote
    decoded,                 \* the commands dispatched so far
    maxread                  \* highest buffer offset read so far

cfgvars == <<buffer, num_tonegens, codeoutput, volume_option>>

genvars == <<gen_note, gen_volume, gen_instrument, gen_instrument_changed,
             gen_did_stopnote>>

statvars == <<max_tonegen_found, notes_skipped, stopnotes_before_startnote,
              consecutive_delays, tonegens_used, instrument_count,
              got_instruments, max_vol, min_vol>>

vars == <<buffer, num_tonegens, codeoutput, volume_option, expect_volume, pc, bufptr,
          lastbufptr, gen_note, gen_volume, gen_instrument,
          gen_instrument_changed, gen_did_stopnote, max_tonegen_found,
          notes_skipped, stopnotes_before_startnote, consecutive_delays,
          warning, gotcommand, timenow, delay, tonegens_used,
          instrument_count, got_instruments, max_vol, min_vol, hdr_found,
          snapshots, errors, decoded, maxread>>

-----------------------------------------------------------------------------
(* Helpers *)

buflen == Len(buffer)

Max(a, b) == IF a > b THEN a ELSE b

\* a variant that keeps its first argument
MinFirst(a, b) == a

Min(a, b) == IF a < b THEN a ELSE b

\* the values a read of offset i can give: the file's byte, or, at and past
\* buflen (malloc'ed but never filled, or outside the block), anything
ByteAt(i) == IF i >= 0 /\ i < buflen THEN {buffer[i + 1]} ELSE GarbageBytes

\* a variant that keeps three bits of the command byte
GenOfThreeBits(cmd) == cmd % 8

\* cmd & 0x0f
GenOf(cmd) == cmd % 16

\* cmd & 0xf0
OpOf(cmd) == (cmd \div 16) * 16

\* a variant that adds the bit instead of or-ing it in
SetBitAdd(bitmap, g) == bitmap + 2 ^ g

\* bitmap | (1 << g)
SetBit(bitmap, g) == IF (bitmap \div (2 ^ g)) % 2 = 1 THEN bitmap ELSE bitmap + 2 ^ g

\* a variant that shifts the first byte by seven bits
DelayValueShiftSeven(cmd, next) == cmd * 128 + next

\* a variant that takes the low byte first
DelayValueLowFirst(cmd, next) == cmd + next * 256

\* ((unsigned int) cmd << 8) + next
DelayValue(cmd, next) == cmd * 256 + next

\* hdrptr->f1 & HDR_F1_VOLUME_PRESENT, as a bool
VolumePresent(f1) == (f1 \div HDR_F1_VOLUME_PRESENT) % 2 = 1

\* a variant of the header test that takes a buffer holding the header alone
HeaderPresentFromSix == buflen >= HDR_SIZE /\ buffer[1] = 80 /\ buffer[2] = 116

\* the header test of main()
HeaderPresent == buflen > HDR_SIZE /\ buffer[1] = 80 /\ buffer[2] = 116

\* a dispatched command: its kind, the offset of its first byte, its
\* generator (-1 for a delay or a marker) and its operand (-1 when none)
Cmd(op, at, g, val) == [op |-> op, at |-> at, gen |-> g, val |-> val]


-----------------------------------------------------------------------------
(* file_error: the report, with the window of bytes around the fault *)

\* a variant that does not cut the window at the start of the buffer
FileErrorReportUncut(msg, at) ==
    [msg  |-> msg,
     pos  |-> at,
     time |-> timenow,
     lo   |-> at - ERR_WINDOW,
     hi   |-> Min(at + ERR_WINDOW, buflen - 1)]

FileErrorReport(msg, at) ==
    [msg  |-> msg,
     pos  |-> at,
     time |-> timenow,
     lo   |-> Max(at - ERR_WINDOW, 0),
     hi   |-> Min(at + ERR_WINDOW, buflen - 1)]

\* the highest offset read once file_error has dumped the window around at
ReadAfterError(at) == Max(maxread, Min(at + ERR_WINDOW, buflen - 1))

\* file_error() returns to its caller; only the "unknown command" branch of
\* main() calls exit() after it
FileErrorExits == FALSE

\* the test of the "note off" branch that calls file_error
NoteOffNotOn(note) == note = SILENT

\* a variant that compares after masking the generator off, as V1.1 did
IsMarkerAnyGen(cmd) == OpOf(cmd) = 240 \/ OpOf(cmd) = 224

\* a variant that knows the end-of-score marker only
IsMarkerEndOnly(cmd) == cmd = 240

\* the bytes the dispatch of main() skips without any effect
IsMarker(cmd) == cmd = 240 \/ cmd = 224

\* a variant of the loop without its increment
LoopIncrementNone(bp) == bp

\* "++bufptr" of the for loop, after a byte that has no operand
LoopIncrement(bp) == bp + 1

\* a variant that never steps over a volume byte
NoteOnEndNoVolume(bp) == bp + 2

\* where the loop's ++bufptr leaves the cursor after a note-on at bp: past
\* the note number, and past the volume byte when one is expected
NoteOnEnd(bp) == IF expect_volume THEN bp + 3 ELSE bp + 2

\* a variant that starts as if a Delay had just been seen
GotCommandAtStartFalse == FALSE

\* "bool gotcommand = true" ahead of the loop
GotCommandAtStart == TRUE

\* a variant with the negation dropped
ConsecutiveDelayInverted == gotcommand

\* "if (!gotcommand)" of the delay branch
ConsecutiveDelay == ~gotcommand

\* a variant that looks at generator 0 whatever the command's generator is
StopnoteBeforeGen0(g) == gen_did_stopnote[0]

\* "if (gen_did_stopnote[gen])" of the note-on branch
StopnoteBefore(g) == gen_did_stopnote[g]

\* a variant that clears the flags of the displayed generators only
StopnoteAfterDelayDisplayed ==
    [g \in Gens |-> IF g < num_tonegens THEN FALSE ELSE gen_did_stopnote[g]]

\* the loop over all MAX_TONEGENS generators that ends the delay branch
StopnoteAfterDelay == [g \in Gens |-> FALSE]

\* a variant that counts the instrument of generator 0 whatever the generator
CountInstrumentOfGen0(gen) == instrument_count (+) SetToBag({gen_instrument[0]})

\* "++instrument_count[gen_instrument[gen]]" of the note-on branch
CountInstrument(gen) == instrument_count (+) SetToBag({gen_instrument[gen]})

\* a variant that takes the display count for the highest displayed index
NoteSkippedAbove(gen) == gen > num_tonegens

\* "if (gen >= num_tonegens)" of the note-on branch
NoteSkipped(gen) == gen >= num_tonegens

\* a variant that leaves the last Delay's value in place
FinalDelayStale == delay

\* "delay = 0" of the final cleanup
FinalDelay == 0

-----------------------------------------------------------------------------
(* print_status: one output line; bp is bufptr, d is delay, w is warning   *)

\* a variant that prints the time after the delay has been added
StatusLineAfterDelay(bp, d, w) ==
    [timenow       |-> timenow + d,
     delay         |-> d,
     note          |-> [g \in 0..(num_tonegens - 1) |-> gen_note[g]],
     instr_changed |-> {g \in 0..(num_tonegens - 1) : gen_instrument_changed[g]},
     warning       |-> w,
     first         |-> lastbufptr,
     last          |-> bp]

StatusLine(bp, d, w) ==
    [timenow       |-> timenow,
     delay         |-> d,
     note          |-> [g \in 0..(num_tonegens - 1) |-> gen_note[g]],
     instr_changed |-> {g \in 0..(num_tonegens - 1) : gen_instrument_changed[g]},
     warning       |-> w,
     first         |-> lastbufptr,
     last          |-> bp]

\* a variant of print_status that clears no flag
ChangedAfterStatusKept == gen_instrument_changed

\* the flags print_status leaves: it clears those of the displayed generators
ChangedAfterStatus ==
    [g \in Gens |-> IF g < num_tonegens THEN FALSE ELSE gen_instrument_changed[g]]

\* a variant of print_status that leaves the warning flag as it finds it
WarningAfterStatusKept == warning

\* "warning = false" of print_status, once the flag has been printed
WarningAfterStatus == FALSE

\* the highest offset read once print_status has dumped lastbufptr..bp
ReadAfterStatus(bp, sofar) == IF lastbufptr <= bp THEN Max(sofar, bp) ELSE sofar

-----------------------------------------------------------------------------
Init ==
    /\ buffer \in Buffers
    /\ num_tonegens \in {1, 6}
    /\ codeoutput \in BOOLEAN
    /\ volume_option \in BOOLEAN
    /\ InputAllowed(buffer, volume_option)
    /\ expect_volume = volume_option
    /\ pc = "header"
    /\ bufptr = 0
    /\ lastbufptr = 0
    /\ gen_note = [g \in Gens |-> 0]
    /\ gen_volume = [g \in Gens |-> 0]
    /\ gen_instrument = [g \in Gens |-> 0]
    /\ gen_instrument_changed = [g \in Gens |-> FALSE]
    /\ gen_did_stopnote = [g \in Gens |-> FALSE]
    /\ max_tonegen_found = 0
    /\ notes_skipped = 0
    /\ stopnotes_before_startnote = 0
    /\ consecutive_delays = 0
    /\ warning = FALSE
    /\ gotcommand = TRUE
    /\ timenow = 0
    /\ delay = 0
    /\ tonegens_used = 0
    /\ instrument_count = EmptyBag
    /\ got_instruments = FALSE
    /\ max_vol = 0
    /\ min_vol = 255
    /\ hdr_found = FALSE
    /\ snapshots = <<>>
    /\ errors = <<>>
    /\ decoded = <<>>
    /\ maxread = -1

\* main(), from "bufptr = lastbufptr = buffer" to the start of the loop
CheckHeader ==
    /\ pc = "header"
    /\ pc' = "loop"
    /\ hdr_found' = HeaderPresent
    /\ IF HeaderPresent
         THEN /\ expect_volume' = VolumePresent(buffer[4])
              /\ bufptr' = buffer[3]
              /\ lastbufptr' = buffer[3]
              /\ maxread' = HDR_SIZE - 1
         ELSE /\ UNCHANGED <<expect_volume, bufptr, lastbufptr>>
              /\ maxread' = IF buflen > HDR_SIZE
                               THEN (IF buffer[1] = 80 THEN 1 ELSE 0)
                               ELSE -1
    /\ gen_note' = [g \in Gens |-> IF g < num_tonegens THEN SILENT ELSE gen_note[g]]
    /\ tonegens_used' = 0
    /\ gotcommand' = GotCommandAtStart
    /\ UNCHANGED <<cfgvars, gen_volume, gen_instrument, gen_instrument_changed,
                   gen_did_stopnote, max_tonegen_found, notes_skipped,
                   stopnotes_before_startnote, consecutive_delays, warning,
                   timenow, delay, instrument_count, got_instruments, max_vol,
                   min_vol, snapshots, errors, decoded>>

InLoop == pc = "loop" /\ bufptr < buflen

\* cmd < 0x80
DelayCmd ==
    /\ InLoop
    /\ LET cmd == buffer[bufptr + 1] IN
       /\ cmd < 128
       /\ \E next \in ByteAt(bufptr + 1) :
            LET d == DelayValue(cmd, next)
                w == warning \/ ConsecutiveDelay
            IN /\ consecutive_delays' =
                     IF ConsecutiveDelay THEN consecutive_delays + 1
                                         ELSE consecutive_delays
               /\ gotcommand' = FALSE
               /\ delay' = d
               /\ snapshots' = Append(snapshots, StatusLine(bufptr + 1, d, w))
               /\ gen_instrument_changed' = ChangedAfterStatus
               /\ warning' = WarningAfterStatus
               /\ lastbufptr' = bufptr + 2
               /\ maxread' = ReadAfterStatus(bufptr + 1, Max(maxread, bufptr + 1))
               /\ timenow' = timenow + d
               /\ gen_did_stopnote' = StopnoteAfterDelay
               /\ bufptr' = bufptr + 2
               /\ decoded' = Append(decoded, Cmd("delay", bufptr, -1, d))
    /\ UNCHANGED <<cfgvars, expect_volume, pc, gen_note, gen_volume,
                   gen_instrument, max_tonegen_found, notes_skipped,
                   stopnotes_before_startnote, tonegens_used, instrument_count,
                   got_instruments, max_vol, min_vol, hdr_found, errors>>

\* cmd == 0xf0 or cmd == 0xe0: neither branch of the dispatch is taken
MarkerCmd ==
    /\ InLoop
    /\ LET cmd == buffer[bufptr + 1] IN
       /\ cmd >= 128
       /\ IsMarker(cmd)
       /\ decoded' = Append(decoded, Cmd("marker", bufptr, -1, cmd))
    /\ bufptr' = LoopIncrement(bufptr)
    /\ maxread' = Max(maxread, bufptr)
    /\ UNCHANGED <<cfgvars, expect_volume, pc, lastbufptr, genvars, statvars,
                   warning, gotcommand, timenow, delay, hdr_found, snapshots,
                   errors>>

\* a byte >= 0x80 that is no marker: the "a command" branch
IsCommand(cmd) == cmd >= 128 /\ ~IsMarker(cmd)

\* cmd & 0xf0 == 0x90
NoteOnCmd ==
    /\ InLoop
    /\ LET cmd == buffer[bufptr + 1]
           gen == GenOf(cmd)
       IN
       /\ IsCommand(cmd)
       /\ OpOf(cmd) = 144
       /\ \E note \in ByteAt(bufptr + 1) :
          \E volume \in (IF expect_volume THEN ByteAt(bufptr + 2) ELSE {0}) :
            /\ gotcommand' = TRUE
            /\ max_tonegen_found' = Max(max_tonegen_found, gen)
            /\ gen_note' = [gen_note EXCEPT ![gen] = note]
            /\ tonegens_used' = SetBit(tonegens_used, gen)
            /\ instrument_count' = CountInstrument(gen)
            /\ stopnotes_before_startnote' =
                  IF StopnoteBefore(gen) THEN stopnotes_before_startnote + 1
                                         ELSE stopnotes_before_startnote
            /\ warning' = (warning \/ StopnoteBefore(gen))
            /\ IF expect_volume
                 THEN /\ gen_volume' = [gen_volume EXCEPT ![gen] = volume]
                      /\ max_vol' = Max(max_vol, volume)
                      /\ min_vol' = Min(min_vol, volume)
                      /\ maxread' = Max(maxread, bufptr + 2)
                 ELSE /\ UNCHANGED <<gen_volume, max_vol, min_vol>>
                      /\ maxread' = Max(maxread, bufptr + 1)
            /\ bufptr' = NoteOnEnd(bufptr)
            /\ notes_skipped' =
                  IF NoteSkipped(gen) THEN notes_skipped + 1 ELSE notes_skipped
            /\ decoded' = Append(decoded, Cmd("noteon", bufptr, gen, note))
    /\ UNCHANGED <<cfgvars, expect_volume, pc, lastbufptr, gen_instrument,
                   gen_instrument_changed, gen_did_stopnote, consecutive_delays,
                   timenow, delay, got_instruments, hdr_found, snapshots, errors>>

\* cmd & 0xf0 == 0x80
NoteOffCmd ==
    /\ InLoop
    /\ LET cmd == buffer[bufptr + 1]
           gen == GenOf(cmd)
           bad == NoteOffNotOn(gen_note[gen])
       IN
       /\ IsCommand(cmd)
       /\ OpOf(cmd) = 128
       /\ gotcommand' = TRUE
       /\ max_tonegen_found' = Max(max_tonegen_found, gen)
       /\ errors' = IF bad
                      THEN Append(errors, FileErrorReport("tone generator not on", bufptr))
                      ELSE errors
       /\ decoded' = Append(decoded, Cmd("noteoff", bufptr, gen, -1))
       /\ maxread' = IF bad THEN ReadAfterError(bufptr) ELSE Max(maxread, bufptr)
       /\ IF bad /\ FileErrorExits
            THEN /\ pc' = "exit"
                 /\ UNCHANGED <<gen_note, gen_did_stopnote, bufptr>>
            ELSE /\ pc' = pc
                 /\ gen_note' = [gen_note EXCEPT ![gen] = SILENT]
                 /\ gen_did_stopnote' = [gen_did_stopnote EXCEPT ![gen] = TRUE]
                 /\ bufptr' = LoopIncrement(bufptr)
    /\ UNCHANGED <<cfgvars, expect_volume, lastbufptr, gen_volume, gen_instrument,
                   gen_instrument_changed, notes_skipped,
                   stopnotes_before_startnote, consecutive_delays, warning,
                   timenow, delay, tonegens_used, instrument_count,
                   got_instruments, max_vol, min_vol, hdr_found, snapshots>>

\* cmd & 0xf0 == 0xc0
InstrumentCmd ==
    /\ InLoop
    /\ LET cmd == buffer[bufptr + 1]
           gen == GenOf(cmd)
       IN
       /\ IsCommand(cmd)
       /\ OpOf(cmd) = 192
       /\ \E b \in ByteAt(bufptr + 1) :
            /\ gen_instrument' = [gen_instrument EXCEPT ![gen] = b % 128]
            /\ decoded' = Append(decoded, Cmd("instrument", bufptr, gen, b % 128))
       /\ gotcommand' = TRUE
       /\ max_tonegen_found' = Max(max_tonegen_found, gen)
       /\ got_instruments' = TRUE
       /\ gen_instrument_changed' = [gen_instrument_changed EXCEPT ![gen] = TRUE]
    /\ bufptr' = bufptr + 2
    /\ maxread' = Max(maxread, bufptr + 1)
    /\ UNCHANGED <<cfgvars, expect_volume, pc, lastbufptr, gen_note, gen_volume,
                   gen_did_stopnote, notes_skipped, stopnotes_before_startnote,
                   consecutive_delays, warning, timenow, delay, tonegens_used,
                   instrument_count, max_vol, min_vol, hdr_found, snapshots,
                   errors>>

\* any other command byte: file_error, then exit(8)
UnknownCmd ==
    /\ InLoop
    /\ LET cmd == buffer[bufptr + 1]
           gen == GenOf(cmd)
       IN
       /\ IsCommand(cmd)
       /\ OpOf(cmd) \notin {144, 128, 192}
       /\ gotcommand' = TRUE
       /\ max_tonegen_found' = Max(max_tonegen_found, gen)
       /\ errors' = Append(errors, FileErrorReport("unknown command", bufptr))
       /\ decoded' = Append(decoded, Cmd("unknown", bufptr, gen, cmd))
    /\ pc' = "exit"
    /\ maxread' = ReadAfterError(bufptr)
    /\ UNCHANGED <<cfgvars, expect_volume, bufptr, lastbufptr, genvars,
                   notes_skipped, stopnotes_before_startnote, consecutive_delays,
                   warning, timenow, delay, tonegens_used, instrument_count,
                   got_instruments, max_vol, min_vol, hdr_found, snapshots>>

\* the final cleanup, once the loop's test bufptr < buffer + buflen fails
Final ==
    /\ pc = "loop"
    /\ bufptr >= buflen
    /\ LET bp == IF codeoutput THEN bufptr - 2 ELSE bufptr - 1 IN
       /\ delay' = FinalDelay
       /\ bufptr' = bp
       /\ snapshots' = Append(snapshots, StatusLine(bp, FinalDelay, warning))
       /\ gen_instrument_changed' = ChangedAfterStatus
       /\ warning' = WarningAfterStatus
       /\ lastbufptr' = bp + 1
       /\ maxread' = IF codeoutput THEN Max(ReadAfterStatus(bp, maxread), bp + 1)
                                   ELSE ReadAfterStatus(bp, maxread)
    /\ pc' = "done"
    /\ UNCHANGED <<cfgvars, expect_volume, gen_note, gen_volume, gen_instrument,
                   gen_did_stopnote, statvars, gotcommand, timenow, hdr_found,
                   errors, decoded>>

Next ==
    \/ CheckHeader
    \/ DelayCmd
    \/ MarkerCmd
    \/ NoteOnCmd
    \/ NoteOffCmd
    \/ InstrumentCmd
    \/ UnknownCmd
    \/ Final

Spec == Init /\ [][Next]_vars

\* the program is one sequential thread that never waits: whenever a step is
\* possible, one is taken
FairSpec == Spec /\ WF_vars(Next)

-----------------------------------------------------------------------------
(* Vocabulary of the properties *)

Last(seq) == seq[Len(seq)]

\* the loop is about to dispatch the byte at bufptr
AtCommand == pc = "loop" /\ bufptr < buflen

CurCmd == buffer[bufptr + 1]

\* the bytes 0x80..0x8F, recognised without the model's dispatch operators
IsNoteOffByte(b) == b >= 128 /\ b <= 143

IsNoteOnByte(b) == b >= 144 /\ b <= 159

IsInstrumentByte(b) == b >= 192 /\ b <= 207

\* a "tone generator not on" report
IsNotOnError(e) == e.msg = "tone generator not on"

IsUnknownError(e) == e.msg = "unknown command"

\* the state of the generators, the clock and the statistics
DecoderState == <<genvars, statvars, timenow, gotcommand, warning>>

-----------------------------------------------------------------------------
(* C1 *)

\* C1 as stated: a NoteOff on a silent generator is fatal: once it has been
\* reported the pass has stopped at that command, no later command has been
\* dispatched and no status line has been written past it.
C1_NoteOffOnSilentIsFatal ==
    \A i \in DOMAIN errors :
        IsNotOnError(errors[i]) =>
            /\ pc = "exit"
            /\ Last(decoded).at = errors[i].pos
            /\ \A k \in DOMAIN snapshots : snapshots[k].last < errors[i].pos

-----------------------------------------------------------------------------
(* C2 *)

\* C2 as stated: once 0xF0 has been read in command position nothing after
\* it is dispatched: it is the last command of the pass.
C2_EndOfScoreStopsDecoding ==
    \A k \in DOMAIN decoded :
        (decoded[k].op = "marker" /\ decoded[k].val = 240) => k = Len(decoded)

-----------------------------------------------------------------------------
(* C3 *)

\* C3 as stated: every offset the pass reads is smaller than the buffer
\* length.
C3_NoReadPastEnd == maxread < buflen

-----------------------------------------------------------------------------
(* C4 *)

RECURSIVE SumDelays(_)
\* the sum of the delays of a sequence of status lines
SumDelays(lines) ==
    IF lines = <<>> THEN 0
    ELSE lines[Len(lines)].delay + SumDelays(SubSeq(lines, 1, Len(lines) - 1))

\* C4: every status line's time is the sum of the delays of the lines
\* written before it, so the times never decrease; when the pass has
\* finished, the sum of all delays is the time of the final line.
C4_TimenowIsSumOfDelays ==
    /\ \A k \in DOMAIN snapshots :
          /\ snapshots[k].timenow = SumDelays(SubSeq(snapshots, 1, k - 1))
          /\ k > 1 => snapshots[k].timenow >= snapshots[k - 1].timenow
    /\ pc = "done" => /\ SumDelays(snapshots) = Last(snapshots).timenow
                      /\ Last(snapshots).timenow = timenow

\* a stream terminated by 0xF0 has finished with three lines and time > 0
C4_Witness ==
    /\ pc = "done"
    /\ errors = <<>>
    /\ decoded # <<>>
    /\ Last(decoded).op = "marker" /\ Last(decoded).val = 240
    /\ Len(snapshots) >= 3
    /\ Last(snapshots).timenow > snapshots[2].timenow
    /\ snapshots[2].timenow > 0

-----------------------------------------------------------------------------
(* C5 *)

\* a NoteOff(g) has been dispatched and no Delay since
StoppedSinceDelay(g) ==
    \E k \in DOMAIN decoded :
        /\ decoded[k].op = "noteoff"
        /\ decoded[k].gen = g
        /\ \A j \in (k + 1)..Len(decoded) : decoded[j].op # "delay"

\* C5: a NoteOn(g) that follows a NoteOff(g) with no Delay between them adds
\* exactly one to stopnotes_before_startnote, reports no error, and the pass
\* goes on with the command after the NoteOn.
C5_StopThenStartCountsOnce ==
    [][(AtCommand /\ IsNoteOnByte(CurCmd) /\ StoppedSinceDelay(CurCmd % 16))
         => /\ stopnotes_before_startnote' = stopnotes_before_startnote + 1
            /\ errors' = errors
            /\ pc' = "loop"
            /\ bufptr' = bufptr + (IF expect_volume THEN 3 ELSE 2)]_vars

\* NoteOn, NoteOff, NoteOn on one generator, without any error
C5_Witness ==
    /\ Len(decoded) >= 3
    /\ decoded[Len(decoded) - 2].op = "noteon"
    /\ decoded[Len(decoded) - 1].op = "noteoff"
    /\ Last(decoded).op = "noteon"
    /\ Last(decoded).gen = decoded[Len(decoded) - 1].gen
    /\ Last(decoded).gen = decoded[Len(decoded) - 2].gen
    /\ errors = <<>>
    /\ stopnotes_before_startnote = 1
    /\ bufptr < buflen

-----------------------------------------------------------------------------
(* C6 *)

HasDelay == \E k \in DOMAIN decoded : decoded[k].op = "delay"

\* the index in decoded of the latest Delay
LastDelayIdx ==
    CHOOSE k \in DOMAIN decoded :
        /\ decoded[k].op = "delay"
        /\ \A j \in (k + 1)..Len(decoded) : decoded[j].op # "delay"

\* a NoteOn, NoteOff or InstrumentChange was dispatched since the latest Delay
CmdSinceDelay ==
    \E j \in (LastDelayIdx + 1)..Len(decoded) :
        decoded[j].op \in {"noteon", "noteoff", "instrument"}

\* C6: a Delay dispatched after an earlier Delay adds exactly one to
\* consecutive_delays, and its status line carries the warning flag, when no
\* NoteOn, NoteOff or InstrumentChange came between the two; it leaves the
\* counter alone when one did.
C6_AdjacentDelaysCounted ==
    [][(AtCommand /\ CurCmd < 128 /\ HasDelay)
         => /\ Len(snapshots') = Len(snapshots) + 1
            /\ IF CmdSinceDelay
                 THEN consecutive_delays' = consecutive_delays
                 ELSE /\ consecutive_delays' = consecutive_delays + 1
                      /\ Last(snapshots').warning]_vars

\* three adjacent Delays, all bytes from the file: the counter is 2
C6_Witness ==
    /\ Len(decoded) = 3
    /\ \A k \in 1..3 : decoded[k].op = "delay"
    /\ maxread < buflen
    /\ consecutive_delays = 2
    /\ ~snapshots[1].warning
    /\ snapshots[2].warning
    /\ snapshots[3].warning

-----------------------------------------------------------------------------
(* C7 *)

StartsWithPt == buflen >= 2 /\ buffer[1] = 80 /\ buffer[2] = 116

\* what a recognised header does: expect_volume is bit 7 of flags1, and the
\* first command, if any, is dispatched at offset header_length
HeaderApplied ==
    /\ expect_volume = (buffer[4] >= 128)
    /\ decoded # <<>> => decoded[1].at = buffer[3]

\* C7 as stated: any buffer of at least 6 bytes that starts with 'P','t' has
\* its header recognised.
C7_HeaderRecognisedFromSixBytes ==
    (pc # "header" /\ buflen >= 6 /\ StartsWithPt) => (hdr_found /\ HeaderApplied)

\* C7 amended: the header is recognised exactly when the buffer is longer
\* than the 6-byte header (length > 6) and starts with 'P','t' (a buffer of
\* exactly 6 bytes is read as having no header); then expect_volume is bit 7
\* of flags1 whatever -v said, and the first command is dispatched at offset
\* header_length.
C7_HeaderRecognisedPastSixBytes ==
    pc # "header" =>
        /\ hdr_found <=> (buflen > 6 /\ StartsWithPt)
        /\ hdr_found => HeaderApplied
        /\ (StartsWithPt /\ ~hdr_found) =>
              /\ expect_volume = volume_option
              /\ decoded # <<>> => decoded[1].at = 0

\* the header 'P','t',6,0x80,0,4 has switched volume on against the option,
\* and the first command was dispatched at offset 6
C7_Witness ==
    /\ hdr_found
    /\ SubSeq(buffer, 1, 6) = <<80, 116, 6, 128, 0, 4>>
    /\ ~volume_option
    /\ expect_volume
    /\ decoded # <<>>
    /\ decoded[1].at = 6

-----------------------------------------------------------------------------
(* C8 *)

\* a byte >= 0x80 that is none of 0x8g, 0x9g, 0xCg, 0xE0, 0xF0
IsUnknownByte(b) ==
    /\ b >= 128
    /\ b \notin {224, 240}
    /\ ~IsNoteOffByte(b) /\ ~IsNoteOnByte(b) /\ ~IsInstrumentByte(b)

\* C8: a byte of no known command, read in command position, is reported as
\* an unknown command at its own offset and ends the pass at once: no status
\* line is written by that step, and no step follows it.
C8_UnknownCommandIsFatal ==
    [][/\ (AtCommand /\ IsUnknownByte(CurCmd))
            => /\ pc' = "exit"
               /\ Len(errors') = Len(errors) + 1
               /\ IsUnknownError(Last(errors'))
               /\ Last(errors').pos = bufptr
               /\ snapshots' = snapshots
       /\ pc # "exit"]_vars

\* the pass has ended on an unknown command after a status line was written
C8_Witness ==
    /\ pc = "exit"
    /\ IsUnknownError(Last(errors))
    /\ Last(errors).pos = bufptr
    /\ bufptr > 0
    /\ snapshots # <<>>
    /\ IsUnknownByte(buffer[bufptr + 1])

-----------------------------------------------------------------------------
(* C9 *)

\* C9 as stated: a 0xE0 read in command position is reported as an unknown
\* command at its offset and ends the pass.
C9_RepeatIsUnknownCommand ==
    \A k \in DOMAIN decoded :
        (decoded[k].op \in {"marker", "unknown"} /\ decoded[k].val = 224)
          => /\ pc = "exit"
             /\ \E i \in DOMAIN errors :
                   IsUnknownError(errors[i]) /\ errors[i].pos = decoded[k].at

\* C9 amended: a 0xE0 read in command position is skipped silently: no
\* error is reported, no status line is written, the generators, the clock
\* and the statistics keep their values, and the pass goes on with the next
\* byte.
C9_RepeatIsSkipped ==
    [][(AtCommand /\ CurCmd = 224)
         => /\ pc' = "loop"
            /\ bufptr' = bufptr + 1
            /\ errors' = errors
            /\ snapshots' = snapshots
            /\ DecoderState' = DecoderState]_vars

\* a 0xE0 was passed over, later commands were dispatched, the pass finished
\* without any report
C9_Witness ==
    /\ pc = "done"
    /\ errors = <<>>
    /\ \E k \in DOMAIN decoded :
          /\ decoded[k].op = "marker"
          /\ decoded[k].val = 224
          /\ k < Len(decoded)
          /\ decoded[k + 1].op # "marker"

-----------------------------------------------------------------------------
(* C10 *)

IsDelayCmd(c) == c.op = "delay"

\* the Delay commands dispatched, in stream order
Delays == SelectSeq(decoded, IsDelayCmd)

RECURSIVE SumVals(_)
SumVals(cmds) ==
    IF cmds = <<>> THEN 0
    ELSE cmds[Len(cmds)].val + SumVals(SubSeq(cmds, 1, Len(cmds) - 1))

\* C10: when the pass ends without exiting, there is one status line per
\* Delay command, in stream order, each with that Delay's value and the time
\* before it is added, and then one final line with delay 0: as many lines as
\* Delay commands plus one.
C10_OneLinePerDelayPlusFinal ==
    pc = "done" =>
        /\ Len(snapshots) = Len(Delays) + 1
        /\ \A k \in 1..Len(Delays) :
              /\ snapshots[k].delay = Delays[k].val
              /\ snapshots[k].last = Delays[k].at + 1
              /\ snapshots[k].timenow = SumVals(SubSeq(Delays, 1, k - 1))
        /\ Last(snapshots).delay = 0
        /\ Last(snapshots).timenow = SumVals(Delays)

\* a finished pass with two Delays of different values and three lines
C10_Witness ==
    /\ pc = "done"
    /\ Len(Delays) = 2
    /\ Len(snapshots) = 3
    /\ Delays[1].val # Delays[2].val
    /\ Len(decoded) > 2

-----------------------------------------------------------------------------
(* C11 *)

\* the index in decoded of the k-th Delay (0 for k = 0)
DelayIndex(k) ==
    IF k = 0 THEN 0
    ELSE CHOOSE j \in DOMAIN decoded :
            /\ decoded[j].op = "delay"
            /\ Cardinality({i \in 1..j : decoded[i].op = "delay"}) = k

\* the index in decoded of the last command that status line k covers: the
\* k-th Delay, or for the final line the last command of the stream
LineEnd(k) == IF k <= Len(Delays) THEN DelayIndex(k) ELSE Len(decoded)

\* among the commands lo..hi a NoteOn(g) comes after a NoteOff(g)
RedundantStopIn(lo, hi) ==
    \E j \in lo..hi :
        /\ decoded[j].op = "noteon"
        /\ \E i \in lo..(j - 1) :
              decoded[i].op = "noteoff" /\ decoded[i].gen = decoded[j].gen

\* the k-th Delay follows the one before it with no command between them
MergeableDelayAt(k) ==
    /\ k > 1
    /\ k <= Len(Delays)
    /\ \A j \in (DelayIndex(k - 1) + 1)..(DelayIndex(k) - 1) :
          decoded[j].op = "marker"

\* an anomaly was detected after line k - 1 was written and before line k was
AnomalyBeforeLine(k) ==
    \/ RedundantStopIn(DelayIndex(k - 1) + 1, LineEnd(k))
    \/ MergeableDelayAt(k)

\* C11: a status line carries the warning flag exactly when a redundant
\* stop/restart or a mergeable Delay was detected since the line before it
\* (the flag never leaks into a later line); the flag pending between lines
\* is set exactly when a redundant stop/restart was seen since the last line;
\* and the pass is never ended by such an anomaly: it exits on an unknown
\* command only.
C11_WarningIffAnomalySinceLastLine ==
    /\ \A k \in DOMAIN snapshots : snapshots[k].warning <=> AnomalyBeforeLine(k)
    /\ warning <=>
          (pc # "done" /\ RedundantStopIn(DelayIndex(Len(Delays)) + 1, Len(decoded)))
    /\ pc = "exit" => Last(decoded).op = "unknown"

\* a finished pass in which a line flagged for a redundant stop/restart is
\* followed by a line without the flag
C11_Witness ==
    /\ pc = "done"
    /\ maxread < buflen
    /\ stopnotes_before_startnote >= 1
    /\ \E k \in DOMAIN snapshots :
          /\ k < Len(snapshots)
          /\ snapshots[k].warning
          /\ ~snapshots[k + 1].warning

-----------------------------------------------------------------------------
(* C12 *)

\* the encoded width of a command of the Playtune format
WidthOf(op) ==
    CASE op = "delay"      -> 2
      [] op = "noteoff"    -> 1
      [] op = "instrument" -> 2
      [] op = "noteon"     -> IF expect_volume THEN 3 ELSE 2

\* C12: a Delay moves the cursor on by 2 bytes, a NoteOff by 1, an
\* InstrumentChange by 2, a NoteOn by 2 without volume and by 3 with it: the
\* command dispatched next is read at exactly that offset, and while the loop
\* runs the cursor stands there.
C12_CursorAdvancesByCommandWidth ==
    \A k \in DOMAIN decoded :
        decoded[k].op \in {"delay", "noteoff", "instrument", "noteon"} =>
            /\ k < Len(decoded) =>
                  decoded[k + 1].at = decoded[k].at + WidthOf(decoded[k].op)
            /\ (k = Len(decoded) /\ pc = "loop") =>
                  bufptr = decoded[k].at + WidthOf(decoded[k].op)

\* a finished pass over a stream with volume bytes: a NoteOn of 3 bytes, the
\* NoteOff right after it, and a Delay, all bytes from the file
C12_Witness ==
    /\ pc = "done"
    /\ expect_volume
    /\ maxread < buflen
    /\ HasDelay
    /\ \E k \in DOMAIN decoded :
          /\ k < Len(decoded)
          /\ decoded[k].op = "noteon"
          /\ decoded[k + 1].op = "noteoff"
          /\ decoded[k + 1].at = decoded[k].at + 3

-----------------------------------------------------------------------------
(* C13 *)

\* a byte the dispatch treats as a command for a generator
IsGenCommandByte(b) == b >= 128 /\ b # 240 /\ b # 224

\* C13: the generator of a command byte b is b & 0x0F (b mod 16), a value in
\* 0..15 that indexes every per-generator table inside its bounds, and
\* max_tonegen_found never decreases: a command for generator g leaves it at
\* the larger of g and its old value, every other step leaves it alone.
C13_GeneratorIndexInRange ==
    [][/\ max_tonegen_found' >= max_tonegen_found
       /\ (AtCommand /\ IsGenCommandByte(CurCmd)) =>
             /\ Last(decoded').gen = CurCmd % 16
             /\ Last(decoded').gen \in 0..(MAX_TONEGENS - 1)
             /\ Last(decoded').gen \in
                   (DOMAIN gen_note \cap DOMAIN gen_volume \cap DOMAIN gen_instrument
                      \cap DOMAIN gen_instrument_changed \cap DOMAIN gen_did_stopnote)
             /\ max_tonegen_found' =
                   (IF CurCmd % 16 > max_tonegen_found THEN CurCmd % 16
                                                       ELSE max_tonegen_found)
       /\ ~(AtCommand /\ IsGenCommandByte(CurCmd)) =>
             max_tonegen_found' = max_tonegen_found]_vars

\* a command for generator 0 was dispatched after one for generator 1, and
\* max_tonegen_found has stayed 1
C13_Witness ==
    /\ Len(decoded) >= 2
    /\ decoded[Len(decoded) - 1].gen = 1
    /\ Last(decoded).gen = 0
    /\ max_tonegen_found = 1

-----------------------------------------------------------------------------
(* C14 *)

\* every displayed generator of a status line is silent, except that
\* generator g, when displayed, plays note n
OnlyGenPlays(line, g, n) ==
    \A h \in DOMAIN line.note : line.note[h] = (IF h = g THEN n ELSE SILENT)

AllSilent(line) == \A h \in DOMAIN line.note : line.note[h] = SILENT

\* C14: the headerless stream 00 64 90 40 01 2C 80 F0, decoded without
\* volume, ends with exactly three status lines: time 0 and delay 100 with
\* all generators silent, time 100 and delay 300 with generator 0 playing
\* 0x40 and the others silent, time 400 and delay 0 with all silent; the
\* final time is 400, max_tonegen_found is 0, the used-generators bitmap is
\* 1, no line carries the warning flag and no error is reported.
C14_WorkedExample ==
    (buffer = ExampleStream /\ ~volume_option /\ pc \in {"done", "exit"}) =>
        /\ pc = "done"
        /\ Len(snapshots) = 3
        /\ snapshots[1].timenow = 0 /\ snapshots[1].delay = 100
        /\ AllSilent(snapshots[1])
        /\ snapshots[2].timenow = 100 /\ snapshots[2].delay = 300
        /\ OnlyGenPlays(snapshots[2], 0, 64)
        /\ snapshots[3].timenow = 400 /\ snapshots[3].delay = 0
        /\ AllSilent(snapshots[3])
        /\ timenow = 400
        /\ max_tonegen_found = 0
        /\ tonegens_used = 1
        /\ \A k \in 1..3 : ~snapshots[k].warning
        /\ stopnotes_before_startnote = 0 /\ consecutive_delays = 0
        /\ errors = <<>>

\* the pass over the example stream has finished, six generators displayed
C14_Witness ==
    /\ buffer = ExampleStream
    /\ ~volume_option
    /\ num_tonegens = 6
    /\ pc = "done"
    /\ Len(decoded) = 5

-----------------------------------------------------------------------------
(* C15 *)

\* C15: the bytes file_error shows for a fault at offset p of a buffer of n
\* bytes are those at the offsets max(0, p - 16) .. min(n - 1, p + 16): the
\* window holds p and never leaves 0 .. n - 1.  This holds for the report of
\* the fatal unknown command and for every other report.
C15_ErrorWindowClipped ==
    \A i \in DOMAIN errors :
        LET p == errors[i].pos
            n == Len(buffer)
        IN /\ errors[i].lo = (IF p - 16 > 0 THEN p - 16 ELSE 0)
           /\ errors[i].hi = (IF p + 16 < n - 1 THEN p + 16 ELSE n - 1)
           /\ 0 <= errors[i].lo
           /\ errors[i].lo <= p
           /\ p <= errors[i].hi
           /\ errors[i].hi <= n - 1

\* the pass has ended on an unknown command far enough from both ends of the
\* buffer for the whole window of 33 bytes to be shown
C15_Witness ==
    /\ pc = "exit"
    /\ IsUnknownError(Last(errors))
    /\ Last(errors).pos = bufptr
    /\ Last(errors).lo = bufptr - 16
    /\ Last(errors).lo > 0
    /\ Last(errors).hi = bufptr + 16
    /\ Last(errors).hi < buflen - 1

-----------------------------------------------------------------------------
(* C16 *)

\* no NoteOn for generator g was dispatched before command k
NoNoteOnBefore(k, g) ==
    \A j \in 1..(k - 1) : ~(decoded[j].op = "noteon" /\ decoded[j].gen = g)

\* C16 as stated: all 16 generators are silent when decoding starts, whatever
\* the number of displayed generators, so every NoteOff(g), g in 0..15, that
\* no NoteOn(g) precedes is reported as "tone generator not on" at its
\* offset, also when g is not displayed.
C16_NoteOffWithoutNoteOnIsReported ==
    \A k \in DOMAIN decoded :
        (decoded[k].op = "noteoff" /\ NoNoteOnBefore(k, decoded[k].gen)) =>
            \E i \in DOMAIN errors :
                IsNotOnError(errors[i]) /\ errors[i].pos = decoded[k].at

-----------------------------------------------------------------------------
(* C17 *)

\* command j is a NoteOn(g) that restarts a generator stopped since the last
\* Delay: a NoteOff(g) precedes it with no Delay and no other NoteOn(g)
\* between the two
RestartsStoppedGen(j) ==
    /\ decoded[j].op = "noteon"
    /\ \E i \in 1..(j - 1) :
          /\ decoded[i].op = "noteoff"
          /\ decoded[i].gen = decoded[j].gen
          /\ \A m \in (i + 1)..(j - 1) :
                /\ decoded[m].op # "delay"
                /\ ~(decoded[m].op = "noteon" /\ decoded[m].gen = decoded[j].gen)

\* C17 as stated: a NoteOn(g) clears the just-stopped mark of g, so
\* stopnotes_before_startnote counts the NoteOns that restart a generator
\* stopped since the last Delay, each stop once: NoteOff(g), NoteOn(g),
\* NoteOn(g) without a Delay adds one in total.
C17_SecondNoteOnNotCounted ==
    stopnotes_before_startnote =
        Cardinality({j \in DOMAIN decoded : RestartsStoppedGen(j)})

-----------------------------------------------------------------------------
(* C18 *)

\* a NoteOff(g) has been dispatched
StoppedBefore(g) ==
    \E k \in DOMAIN decoded : decoded[k].op = "noteoff" /\ decoded[k].gen = g

\* C18: a Delay clears the just-stopped mark of all 16 generators: a NoteOn(g)
\* dispatched when at least one Delay has come since the latest NoteOff(g)
\* leaves stopnotes_before_startnote and the warning flag as they are, for
\* every g in 0..15; and after a Delay no generator is marked.
C18_DelayClearsJustStopped ==
    [][/\ (AtCommand /\ IsNoteOnByte(CurCmd) /\ StoppedBefore(CurCmd % 16)
             /\ ~StoppedSinceDelay(CurCmd % 16))
          => /\ stopnotes_before_startnote' = stopnotes_before_startnote
             /\ warning' = warning
       /\ (AtCommand /\ CurCmd < 128)
          => \A g \in 0..15 : ~gen_did_stopnote'[g]]_vars

\* generator 15 was stopped, a Delay followed, and its NoteOn was dispatched
\* without a count and without a warning
C18_Witness ==
    /\ decoded # <<>>
    /\ Last(decoded).op = "noteon"
    /\ Last(decoded).gen = 15
    /\ StoppedBefore(15)
    /\ ~StoppedSinceDelay(15)
    /\ stopnotes_before_startnote = 0
    /\ ~warning

-----------------------------------------------------------------------------
(* C19 *)

\* the header test is done and no byte has been dispatched yet
AtStart == pc = "loop" /\ decoded = <<>>

\* C19 as stated: when a header is recognised, decoding starts at offset
\* header_length, and that offset is at least 6 and at most the buffer
\* length: the cursor never starts inside the header nor outside the buffer.
C19_StartOffsetWithinBuffer ==
    (hdr_found /\ AtStart) =>
        /\ bufptr = buffer[3]
        /\ 6 <= bufptr
        /\ bufptr <= buflen

-----------------------------------------------------------------------------
(* C20 *)

\* C20: a NoteOn(g) for a generator that is not displayed (g >= the display
\* count) is no error: it adds exactly one to notes_skipped, still records
\* the note of g (and its volume, when volume bytes are expected), and the
\* pass goes on; a NoteOn(g) for a displayed generator leaves notes_skipped
\* as it is.
C20_UndisplayedNoteOnIsSkippedNotFatal ==
    [][(AtCommand /\ IsNoteOnByte(CurCmd)) =>
          LET g == CurCmd % 16 IN
          /\ notes_skipped' =
                (IF g >= num_tonegens THEN notes_skipped + 1 ELSE notes_skipped)
          /\ errors' = errors
          /\ pc' = "loop"
          /\ bufptr + 1 < buflen => gen_note'[g] = buffer[bufptr + 2]
          /\ (expect_volume /\ bufptr + 2 < buflen) =>
                gen_volume'[g] = buffer[bufptr + 3]
          /\ bufptr' = bufptr + (IF expect_volume THEN 3 ELSE 2)]_vars

\* the NoteOn for generator 15, which is never displayed, has been counted
\* and recorded, and the pass has finished
C20_Witness ==
    /\ pc = "done"
    /\ maxread < buflen
    /\ notes_skipped = 1
    /\ num_tonegens < 15
    /\ gen_note[15] = 64
    /\ \E k \in DOMAIN decoded : decoded[k].op = "noteon" /\ decoded[k].gen = 15

-----------------------------------------------------------------------------
(* C21 *)

\* the generators of the dispatched commands of the kinds in ops
GensOf(ops) == {decoded[k].gen : k \in {j \in DOMAIN decoded : decoded[j].op \in ops}}

\* the largest member of a set of generators, 0 for the empty set
LargestOf(S) == IF S = {} THEN 0 ELSE CHOOSE m \in S : \A x \in S : x <= m

\* bit g of a bitmap
BitOf(bitmap, g) == (bitmap \div (2 ^ g)) % 2 = 1

\* C21 as stated: max_tonegen_found is changed by NoteOn commands only, so
\* it is the largest g for which a NoteOn(g) was decoded (0 if none).
C21_MaxIsLargestNoteOnGen ==
    max_tonegen_found = LargestOf(GensOf({"noteon"}))

\* C21 amended: the used-generators bitmap is changed by NoteOn commands
\* only (bit g is set exactly when a NoteOn(g) was decoded), but
\* max_tonegen_found is raised by every byte that enters the command branch,
\* before its kind is looked at: it is the largest g of any NoteOn, NoteOff,
\* InstrumentChange or unknown command byte decoded so far (0 if none).
C21_MaxIsLargestCommandGen ==
    /\ max_tonegen_found =
          LargestOf(GensOf({"noteon", "noteoff", "instrument", "unknown"}))
    /\ \A g \in 0..15 : BitOf(tonegens_used, g) <=> g \in GensOf({"noteon"})
    /\ tonegens_used < 2 ^ 16

\* a finished pass with a NoteOn for generator 0 only and a NoteOff for
\* generator 1: the bitmap holds bit 0 alone, max_tonegen_found is 1
C21_Witness ==
    /\ pc = "done"
    /\ GensOf({"noteon"}) = {0}
    /\ 1 \in GensOf({"noteoff"})
    /\ tonegens_used = 1
    /\ max_tonegen_found = 1

-----------------------------------------------------------------------------
(* C22 *)

\* an InstrumentChange(g) is among the commands lo..hi
InstrumentIn(g, lo, hi) ==
    \E j \in lo..hi : decoded[j].op = "instrument" /\ decoded[j].gen = g

\* an InstrumentChange(g) was dispatched since the last status line
InstrumentSinceLine(g) ==
    pc # "done" /\ InstrumentIn(g, DelayIndex(Len(Delays)) + 1, Len(decoded))

\* C22 as stated: once a status line is written the instrument-changed flag
\* is false for all 16 generators: the flag of generator g is set only while
\* an InstrumentChange(g) has been decoded since the last line.
C22_FlagClearedForAllGenerators ==
    \A g \in 0..15 : gen_instrument_changed[g] => InstrumentSinceLine(g)

\* C22 amended: writing a status line clears the instrument-changed flag of
\* the displayed generators (g below the display count) only; the flag of an
\* undisplayed generator stays set from its first InstrumentChange to the end
\* of the pass, but is never shown.  A status line shows generator g as
\* instrument-changed exactly when g is displayed and an InstrumentChange(g)
\* was decoded since the previous line.
C22_FlagClearedForDisplayedGenerators ==
    /\ \A g \in 0..15 :
          gen_instrument_changed[g] <=>
             (IF g < num_tonegens THEN InstrumentSinceLine(g)
                                  ELSE InstrumentIn(g, 1, Len(decoded)))
    /\ \A k \in DOMAIN snapshots : \A g \in 0..15 :
          g \in snapshots[k].instr_changed <=>
             (g < num_tonegens /\ InstrumentIn(g, DelayIndex(k - 1) + 1, LineEnd(k)))

\* a finished pass: generator 0 was shown as changed on the first line and
\* not on the second, and the flag of generator 15 is still set
C22_Witness ==
    /\ pc = "done"
    /\ maxread < buflen
    /\ Len(snapshots) = 3
    /\ snapshots[1].instr_changed = {0}
    /\ snapshots[2].instr_changed = {}
    /\ gen_instrument_changed[15]
    /\ ~gen_instrument_changed[0]

-----------------------------------------------------------------------------
(* C23 *)

\* the offset decoding starts at
StartOffset == IF hdr_found THEN buffer[3] ELSE 0

\* C23 as stated: the byte ranges first..last of the status lines are
\* contiguous and disjoint: the first line's range begins at the start
\* offset, every later one begins right after the end of the one before it,
\* the range of a Delay's line ends with the second byte of that Delay, and
\* every offset of every range is inside the buffer.
C23_LineRangesContiguousInBuffer ==
    \A k \in DOMAIN snapshots :
        /\ snapshots[k].first = (IF k = 1 THEN StartOffset
                                          ELSE snapshots[k - 1].last + 1)
        /\ k <= Len(Delays) => snapshots[k].last = Delays[k].at + 1
        /\ \A i \in snapshots[k].first..snapshots[k].last : 0 <= i /\ i < buflen

-----------------------------------------------------------------------------
(* C24 *)

\* the pass is over: the final cleanup is done, or exit() was called
Terminated == pc \in {"done", "exit"}

\* C24: every step of the decode loop that does not end the pass moves the
\* cursor strictly forward, and the pass over a finite buffer always ends:
\* with the final cleanup once the buffer is exhausted, or at a fatal error.
C24_PassTerminates ==
    /\ [][(pc = "loop" /\ pc' = "loop") => bufptr' > bufptr]_vars
    /\ <>Terminated

\* the pass over a 40-byte buffer has finished after 40 dispatches
C24_Witness ==
    /\ pc = "done"
    /\ maxread < buflen
    /\ Len(decoded) >= 40

-----------------------------------------------------------------------------
(* C25 *)

\* C25: a Delay with first byte b (below 0x80) and second byte c has the
\* value 256 * b + c, a number in 0..32767; its status line carries that
\* value and the time before it, and the time after it is larger by exactly
\* that value: timenow is the sum of the Delays dispatched.
C25_DelayIsBigEndian ==
    /\ \A k \in 1..Len(Delays) :
          LET d == Delays[k] IN
          /\ buffer[d.at + 1] < 128
          /\ d.val \in 0..32767
          /\ d.val \div 256 = buffer[d.at + 1]
          /\ d.at + 1 < buflen => d.val = 256 * buffer[d.at + 1] + buffer[d.at + 2]
          /\ snapshots[k].delay = d.val
          /\ snapshots[k].timenow + d.val = SumVals(SubSeq(Delays, 1, k))
    /\ timenow = SumVals(Delays)

\* the Delay 7F FF, both bytes from the file, has moved the time to 32767
C25_Witness ==
    /\ Len(Delays) = 1
    /\ maxread < buflen
    /\ buffer[Delays[1].at + 1] = 127
    /\ Delays[1].val = 32767
    /\ timenow = 32767

-----------------------------------------------------------------------------
(* C26 *)

\* the InstrumentChanges of generator g dispatched before command k
InstrumentsBefore(k, g) ==
    {j \in 1..(k - 1) : decoded[j].op = "instrument" /\ decoded[j].gen = g}

\* the instrument of generator g when command k is dispatched: that of its
\* latest InstrumentChange, 0 when it has had none
InstrumentAt(k, g) ==
    IF InstrumentsBefore(k, g) = {} THEN 0
    ELSE decoded[CHOOSE j \in InstrumentsBefore(k, g) :
                    \A i \in InstrumentsBefore(k, g) : i <= j].val

\* the NoteOn commands dispatched while their generator had instrument i
NoteOnsWith(i) ==
    {k \in DOMAIN decoded :
        decoded[k].op = "noteon" /\ InstrumentAt(k, decoded[k].gen) = i}

\* C26: at every point of the pass the entry of instrument i in the
\* histogram is the number of NoteOn commands decoded while their generator
\* had instrument i (0 for a generator that never had an InstrumentChange),
\* for each of the 128 instruments, so the sum of all entries is the number
\* of NoteOn commands decoded so far; no other command changes an entry.
C26_HistogramCountsNoteOns ==
    /\ BagToSet(instrument_count) \subseteq 0..127
    /\ BagToSet(instrument_count) =
          {InstrumentAt(k, decoded[k].gen) :
              k \in {j \in DOMAIN decoded : decoded[j].op = "noteon"}}
    /\ \A i \in BagToSet(instrument_count) :
          CopiesIn(i, instrument_count) = Cardinality(NoteOnsWith(i))
    /\ BagCardinality(instrument_count) =
          Cardinality({k \in DOMAIN decoded : decoded[k].op = "noteon"})

\* a finished pass with one NoteOn, counted under instrument 7, which its
\* generator was given before
C26_Witness ==
    /\ pc = "done"
    /\ maxread < buflen
    /\ CopiesIn(7, instrument_count) = 1
    /\ BagCardinality(instrument_count) = 1
    /\ got_instruments

-----------------------------------------------------------------------------
(* C27 *)

NoteOnIdx == {k \in DOMAIN decoded : decoded[k].op = "noteon"}

\* the volume byte of the NoteOn dispatched as command k: the byte two past
\* the command byte; when that lies past the end of the buffer the NoteOn is
\* the last command, and the byte that was read is the generator's volume
VolumeOf(k) ==
    IF decoded[k].at + 2 < buflen THEN buffer[decoded[k].at + 3]
                                  ELSE gen_volume[decoded[k].gen]

\* the volume bytes decoded so far
Volumes == {VolumeOf(k) : k \in NoteOnIdx}

\* C27: while volume bytes are expected, before the first NoteOn min_vol and
\* max_vol hold their initial values 255 and 0; from the first NoteOn on,
\* each of them is one of the decoded volumes, min_vol <= max_vol, and every
\* decoded volume lies in min_vol..max_vol.
C27_VolumeRangeTracksDecodedVolumes ==
    expect_volume =>
        IF NoteOnIdx = {}
          THEN min_vol = 255 /\ max_vol = 0
          ELSE /\ min_vol \in Volumes
               /\ max_vol \in Volumes
               /\ min_vol <= max_vol
               /\ \A v \in Volumes : min_vol <= v /\ v <= max_vol

\* two NoteOns with different volumes, all bytes from the file
C27_Witness ==
    /\ expect_volume
    /\ maxread < buflen
    /\ Cardinality(NoteOnIdx) = 2
    /\ Cardinality(Volumes) = 2
    /\ min_vol < max_vol
    /\ min_vol > 0

-----------------------------------------------------------------------------
(* C28 *)

\* between the (k-1)-th and the k-th Delay nothing but 0xE0 and 0xF0 bytes
\* was dispatched
OnlyMarkersBefore(k) ==
    \A j \in (DelayIndex(k - 1) + 1)..(DelayIndex(k) - 1) : decoded[j].op = "marker"

\* C28: the first Delay of the stream is never counted as a consecutive
\* delay, whatever precedes it; a later Delay is counted, and its status line
\* flagged, exactly when nothing but the marker bytes 0xE0 and 0xF0 stands
\* between it and the Delay before it: the markers do not count as commands.
C28_MarkersDoNotSeparateDelays ==
    /\ Len(Delays) <= 1 => consecutive_delays = 0
    /\ consecutive_delays =
          Cardinality({k \in 2..Len(Delays) : OnlyMarkersBefore(k)})
    /\ \A k \in 2..Len(Delays) : OnlyMarkersBefore(k) => snapshots[k].warning

\* a finished pass over Delay, marker, Delay: one consecutive delay counted,
\* the second line flagged and the first not
C28_Witness ==
    /\ pc = "done"
    /\ maxread < buflen
    /\ Len(decoded) = 3
    /\ decoded[1].op = "delay"
    /\ decoded[2].op = "marker"
    /\ decoded[3].op = "delay"
    /\ consecutive_delays = 1
    /\ ~snapshots[1].warning
    /\ snapshots[2].warning

=============================================================================
